---- MODULE Spec2Model ----
(***************************************************************************)
(* Retrieval-augmented answer pipeline of the PDF chatbot                  *)
(* (backend/app/rag.py): ingestion into the vector index, filtered top-k   *)
(* retrieval, conversation memory, casual-intent short-circuit and answer  *)
(* synthesis with LLM fallback.                                            *)
(*                                                                         *)
(* Texts are sequences of pieces <<src, off, len>>: the len characters of  *)
(* the source text src starting at offset off.  Concatenation is \o and    *)
(* slicing s[:k] is Take(s, k), so lengths and truncation are computed.    *)
(* Questions are additionally known character by character (QChars), as   *)
(* the classifier inspects their characters.  Timestamps are not modelled. *)
(***************************************************************************)
EXTENDS Integers, Sequences, FiniteSets, TLC

VARIABLES vector_store, chroma_db, retriever, llm,
          conversation_history, uploaded_documents, last,
          imported_history, binding, requests, loop,
          interactions_log, error_log, daily_stats

vars == <<vector_store, chroma_db, retriever, llm,
          conversation_history, uploaded_documents, last,
          imported_history, binding, requests, loop,
          interactions_log, error_log, daily_stats>>

None == "None"

\* ---------------------------------------------------------------- bounds
\* Spec: get_answer is asked only while the log is shorter than MaxTurns.
MaxTurns == 2
\* Spec: an ingest is accepted only while the collection stays within MaxChunks.
MaxChunks == 7

\* ---------------------------------------------------------- configuration
MAX_CONVERSATION_HISTORY == 10
CHUNK_SIZE == 1000
CHUNK_OVERLAP == 100
\* k of similarity_search_with_relevance_scores
TopK == 5
\* context[:1500] of the fallback answer
FallbackContextChars == 1500
\* doc.page_content[:150] of a citation
SnippetChars == 150
\* conversation_history[-6:] and msg['content'][:200]
ContextTurns == 6
ContextTurnChars == 200

Min(a, b) == IF a < b THEN a ELSE b
Max(a, b) == IF a > b THEN a ELSE b

\* ------------------------------------------------------------------ texts
Lit(src, n) == IF n = 0 THEN <<>> ELSE << <<src, 0, n>> >>

RECURSIVE StrLen(_)
StrLen(s) == IF s = <<>> THEN 0 ELSE s[1][3] + StrLen(Tail(s))

\* s[:k]
RECURSIVE Take(_, _)
Take(s, k) ==
    IF s = <<>> \/ k <= 0 THEN <<>>
    ELSE IF s[1][3] <= k THEN <<s[1]>> \o Take(Tail(s), k - s[1][3])
    ELSE << <<s[1][1], s[1][2], k>> >>

\* ------------------------------------------------- characters of questions
Whitespace == {" ", "\t", "\n"}
Digits == {"0", "1", "2", "3", "4", "5", "6", "7", "8", "9"}

UpperCase == <<"A","B","C","D","E","F","G","H","I","J","K","L","M","N","O","P","Q","R","S","T","U","V","W","X","Y","Z">>
LowerCase == <<"a","b","c","d","e","f","g","h","i","j","k","l","m","n","o","p","q","r","s","t","u","v","w","x","y","z">>

\* str.lower()
LowerChar(c) == IF \E i \in 1..26 : UpperCase[i] = c
                THEN LowerCase[CHOOSE i \in 1..26 : UpperCase[i] = c] ELSE c

Lower(cs) == [i \in 1..Len(cs) |-> LowerChar(cs[i])]

\* str.strip()
RECURSIVE LStrip(_)
LStrip(cs) == IF cs /= <<>> /\ cs[1] \in Whitespace THEN LStrip(Tail(cs)) ELSE cs

RECURSIVE RStrip(_)
RStrip(cs) == IF cs /= <<>> /\ cs[Len(cs)] \in Whitespace
              THEN RStrip(SubSeq(cs, 1, Len(cs) - 1)) ELSE cs

Strip(cs) == RStrip(LStrip(cs))

\* str.startswith(p)
StartsWith(cs, p) == Len(p) <= Len(cs) /\ SubSeq(cs, 1, Len(p)) = p

\* p in cs
Contains(cs, p) == \E i \in 1..(Len(cs) - Len(p) + 1) : SubSeq(cs, i, i + Len(p) - 1) = p

\* len(cs.split()): maximal runs of non-whitespace characters
TokenCount(cs) ==
    Cardinality({i \in 1..Len(cs) :
                    cs[i] \notin Whitespace /\ (i = 1 \/ cs[i - 1] \in Whitespace)})

\* any(c.isdigit() for c in cs)
HasDigit(cs) == \E i \in 1..Len(cs) : cs[i] \in Digits

GREETING_PATTERNS == <<
    <<"h","i">>,
    <<"h","e","l","l","o">>,
    <<"h","e","y">>,
    <<"g","o","o","d"," ","m","o","r","n","i","n","g">>,
    <<"g","o","o","d"," ","a","f","t","e","r","n","o","o","n">>,
    <<"g","o","o","d"," ","e","v","e","n","i","n","g">>,
    <<"h","o","w","d","y">>,
    <<"g","r","e","e","t","i","n","g","s">>,
    <<"s","u","p">>,
    <<"w","h","a","t","'","s"," ","u","p">>,
    <<"y","o">>,
    <<"h","o","l","a">>,
    <<"n","a","m","a","s","t","e">> >>

CASUAL_PATTERNS == <<
    <<"h","o","w"," ","a","r","e"," ","y","o","u">>,
    <<"h","o","w","'","s"," ","i","t"," ","g","o","i","n","g">>,
    <<"w","h","a","t"," ","c","a","n"," ","y","o","u"," ","d","o">>,
    <<"w","h","o"," ","a","r","e"," ","y","o","u">>,
    <<"h","e","l","p">>,
    <<"t","h","a","n","k"," ","y","o","u">>,
    <<"t","h","a","n","k","s">>,
    <<"b","y","e">>,
    <<"g","o","o","d","b","y","e">>,
    <<"s","e","e"," ","y","o","u">> >>

\* the characters of each question text the model asks
QChars ==
    "hi" :> <<"h","i">> @@
    "Hey, what about clause 7" :> <<"H","e","y",","," ","w","h","a","t"," ","a","b","o","u","t"," ","c","l","a","u","s","e"," ","7">> @@
    "thanks for chapter 3" :> <<"t","h","a","n","k","s"," ","f","o","r"," ","c","h","a","p","t","e","r"," ","3">> @@
    "refund policy" :> <<"r","e","f","u","n","d"," ","p","o","l","i","c","y">> @@
    "page 5" :> <<"p","a","g","e"," ","5">> @@
    "what is the refund policy" :> <<"w","h","a","t"," ","i","s"," ","t","h","e"," ","r","e","f","u","n","d"," ","p","o","l","i","c","y">> @@
    "  Summarize section 2 please " :> <<" "," ","S","u","m","m","a","r","i","z","e"," ","s","e","c","t","i","o","n"," ","2"," ","p","l","e","a","s","e"," ">> @@
    "history" :> <<"h","i","s","t","o","r","y">>

\* the question as a text value
Txt(q) == Lit(q, Len(QChars[q]))

\* ------------------------------------------- greeting / casual detection
GreetingMatch(t, p) ==
    \/ t = p
    \/ StartsWith(t, p \o <<" ">>)
    \/ StartsWith(t, p \o <<"!">>)
    \/ StartsWith(t, p \o <<",">>)

\* is_greeting_or_casual without the digit test of line 48
is_greeting_or_casual_no_digit_test(text) ==
    LET text_lower == Strip(Lower(text)) IN
    \/ \E i \in 1..Len(GREETING_PATTERNS) : GreetingMatch(text_lower, GREETING_PATTERNS[i])
    \/ \E i \in 1..Len(CASUAL_PATTERNS) : Contains(text_lower, CASUAL_PATTERNS[i])
    \/ TokenCount(text_lower) <= 2

\* text: the characters of the message
is_greeting_or_casual(text) ==
    LET text_lower == Strip(Lower(text)) IN
    \/ \E i \in 1..Len(GREETING_PATTERNS) : GreetingMatch(text_lower, GREETING_PATTERNS[i])
    \/ \E i \in 1..Len(CASUAL_PATTERNS) : Contains(text_lower, CASUAL_PATTERNS[i])
    \/ (TokenCount(text_lower) <= 2 /\ ~HasDigit(text_lower))

GreetingResponse == Lit("Hello! I'm your PDF assistant...", 120)
HowAreYouResponse == Lit("I'm doing great, thank you for asking!...", 107)
HelpResponse == Lit("I'm a PDF RAG Chatbot! Here's what I can do:...", 310)
ThanksResponse == Lit("You're welcome!...", 73)
GoodbyeResponse == Lit("Goodbye! Come back anytime...", 58)
DefaultCasualResponse == Lit("I'm here to help! Upload a PDF document...", 109)

get_friendly_response(text) ==
    LET text_lower == Strip(Lower(text))
        has(w) == Contains(text_lower, w)
    IN  IF \E i \in 1..Len(GREETING_PATTERNS) :
               text_lower = GREETING_PATTERNS[i] \/ StartsWith(text_lower, GREETING_PATTERNS[i])
        THEN GreetingResponse
        ELSE IF has(CASUAL_PATTERNS[1]) \/ has(CASUAL_PATTERNS[2])
        THEN HowAreYouResponse
        ELSE IF has(CASUAL_PATTERNS[3]) \/ has(CASUAL_PATTERNS[5]) \/ has(CASUAL_PATTERNS[4])
        THEN HelpResponse
        ELSE IF has(<<"t","h","a","n","k">>)
        THEN ThanksResponse
        ELSE IF has(CASUAL_PATTERNS[8]) \/ has(CASUAL_PATTERNS[9]) \/ has(CASUAL_PATTERNS[10])
        THEN GoodbyeResponse
        ELSE DefaultCasualResponse

\* both functions, tabulated over the questions of the model
IsCasual == [q \in DOMAIN QChars |-> is_greeting_or_casual(QChars[q])]
FriendlyResponse == [q \in DOMAIN QChars |-> get_friendly_response(QChars[q])]

\* ----------------------------------------------------------- token counts
\* The tokenizer is an external library: a count is kept as the text it is
\* the count of.
count_tokens(text) == <<"tokens", text>>

\* ---------------------------------------------------- conversation memory
Turn(role, content) == [role |-> role, content |-> content]

\* conversation_history[-n:]
LastN(h, n) == IF Len(h) <= n THEN h ELSE SubSeq(h, Len(h) - n + 1, Len(h))

\* add_to_history without the eviction of lines 107-108
add_to_history_keep_all(h, role, content) == Append(h, Turn(role, content))

\* add_to_history that, over the limit, keeps the oldest turns and drops
\* the one just appended
add_to_history_drop_newest(h, role, content) ==
    LET appended == Append(h, Turn(role, content)) IN
    IF Len(appended) > MAX_CONVERSATION_HISTORY * 2
    THEN SubSeq(appended, 1, MAX_CONVERSATION_HISTORY * 2)
    ELSE appended

add_to_history(h, role, content) ==
    LET appended == Append(h, Turn(role, content)) IN
    IF Len(appended) > MAX_CONVERSATION_HISTORY * 2
    THEN LastN(appended, MAX_CONVERSATION_HISTORY * 2)
    ELSE appended

ContextLine(msg) ==
    Lit(IF msg.role = "user" THEN "User: " ELSE "Assistant: ",
        IF msg.role = "user" THEN 6 ELSE 11)
      \o Take(msg.content, ContextTurnChars) \o Lit("\n", 1)

RECURSIVE ContextLines(_)
ContextLines(msgs) ==
    IF msgs = <<>> THEN <<>> ELSE ContextLine(msgs[1]) \o ContextLines(Tail(msgs))

\* get_conversation_context without the slice [-6:] of line 116: every turn
\* of the log is rendered
get_conversation_context_all_turns(h) ==
    IF h = <<>> THEN <<>>
    ELSE Lit("Previous conversation:\n", 23) \o ContextLines(h)

get_conversation_context(h) ==
    IF h = <<>> THEN <<>>
    ELSE Lit("Previous conversation:\n", 23) \o ContextLines(LastN(h, ContextTurns))

\* ----------------------------------------- the list main.py has imported
\* main.py, lines 25-32: `from .rag import conversation_history` binds
\* main's name to the list object rag's global holds when main is loaded.
\* imported_history is the content of that object and binding says how the
\* two names stand: "not imported" (rag used on its own), "same list",
\* or "stale list".  list.append (line 101) changes the object in place, so
\* both names see it; an assignment to rag's global (lines 108, 124, 271)
\* makes a new list and main's name keeps the old one.
Rebound(bound) == IF bound = "same list" THEN "stale list" ELSE bound

\* the imported list and the binding after add_to_history was called with
\* each of turns, from the log h
RECURSIVE ImportedAfter(_, _, _, _)
ImportedAfter(h, imported, bound, turns) ==
    IF turns = <<>> THEN [imported |-> imported, binding |-> bound]
    ELSE LET appended == Append(h, turns[1])
             seen == IF bound = "same list" THEN appended ELSE imported
         IN  ImportedAfter(add_to_history(h, turns[1].role, turns[1].content),
                           seen,
                           IF Len(appended) > MAX_CONVERSATION_HISTORY * 2
                           THEN Rebound(bound) ELSE bound,
                           Tail(turns))

\* add_to_history is called with each of turns
Appends(turns) ==
    \E m \in {ImportedAfter(conversation_history, imported_history, binding, turns)} :
        /\ imported_history' = m.imported
        /\ binding' = m.binding

\* rag's global is assigned a new list
Rebinds ==
    /\ imported_history' = imported_history
    /\ binding' = Rebound(binding)

\* ------------------------------------------------------------ PDF loading
\* A PDF on disk: whether fitz can open it, and the text of each page
\* (blank: the page's text is empty or whitespace only).
Page(src, n, blank) == [src |-> src, len |-> n, blank |-> blank]

DocA == [filename |-> "a.pdf", openable |-> TRUE,
         pages |-> << Page("a.pdf/p0", 400, FALSE),
                      Page("a.pdf/p1", 3, TRUE),
                      Page("a.pdf/p2", 1900, FALSE) >>]
DocB == [filename |-> "b.pdf", openable |-> TRUE,
         pages |-> << Page("b.pdf/p0", 1000, FALSE),
                      Page("b.pdf/p1", 700, FALSE) >>]
DocBlank == [filename |-> "blank.pdf", openable |-> TRUE,
             pages |-> << Page("blank.pdf/p0", 0, TRUE),
                          Page("blank.pdf/p1", 2, TRUE) >>]
DocCorrupt == [filename |-> "corrupt.pdf", openable |-> FALSE, pages |-> <<>>]

PdfFiles == {DocA, DocB, DocBlank, DocCorrupt}

\* a langchain Document: page_content and the metadata page / filename
Document(content, page, filename) ==
    [page_content |-> content, page |-> page, filename |-> filename]

RECURSIVE LoadPages(_, _, _)
LoadPages(pages, page_num, filename) ==
    IF pages = <<>> THEN <<>>
    ELSE (IF ~pages[1].blank
          THEN << Document(Lit(pages[1].src, pages[1].len), page_num, filename) >>
          ELSE <<>>)
         \o LoadPages(Tail(pages), page_num + 1, filename)

\* load_pdf_with_pymupdf without the text.strip() test of line 141
load_pdf_with_pymupdf_keep_blank(file) ==
    IF file.openable
    THEN [i \in 1..Len(file.pages) |->
             Document(<< <<file.pages[i].src, 0, file.pages[i].len>> >>, i - 1, file.filename)]
    ELSE <<>>

load_pdf_with_pymupdf(file) ==
    IF file.openable THEN LoadPages(file.pages, 0, file.filename) ELSE <<>>

\* ---------------------------------------------------------- text splitter
\* RecursiveCharacterTextSplitter on a text without natural boundaries: the
\* hard cut.  A chunk holds at most CHUNK_SIZE characters and starts
\* CHUNK_OVERLAP characters before the end of the previous one.
RECURSIVE SplitFrom(_, _, _)
SplitFrom(src, off, n) ==
    IF n - off <= CHUNK_SIZE THEN << <<src, off, n - off>> >>
    ELSE << <<src, off, CHUNK_SIZE>> >> \o SplitFrom(src, off + CHUNK_SIZE - CHUNK_OVERLAP, n)

RECURSIVE PiecesToDocs(_, _)
PiecesToDocs(pieces, doc) ==
    IF pieces = <<>> THEN <<>>
    ELSE << Document(<<pieces[1]>>, doc.page, doc.filename) >> \o PiecesToDocs(Tail(pieces), doc)

RECURSIVE split_documents(_)
split_documents(documents) ==
    IF documents = <<>> THEN <<>>
    ELSE PiecesToDocs(SplitFrom(documents[1].page_content[1][1], 0,
                                StrLen(documents[1].page_content)), documents[1])
         \o split_documents(Tail(documents))

\* ----------------------------------------------------------- vector index
\* The embedding model and the distance are external: the relevance of a
\* chunk to a question is a fixed function of both, in thousandths.
PageSeed ==
    "a.pdf/p0" :> 412 @@ "a.pdf/p1" :> 903 @@ "a.pdf/p2" :> 77 @@
    "b.pdf/p0" :> 655 @@ "b.pdf/p1" :> 238 @@
    "blank.pdf/p0" :> 540 @@ "blank.pdf/p1" :> 166

Relevance(question, doc) ==
    (PageSeed[doc.page_content[1][1]] + 3 * (doc.page_content[1][2] \div 10)
       + 173 * Len(QChars[question])) % 1000

\* similarity_search_with_relevance_scores(question, k, filter): the k most
\* relevant chunks among those whose metadata match the filter, best first
\* (equal scores in insertion order).
similarity_search_with_relevance_scores(db, question, k, where_filter) ==
    LET eligible == {i \in 1..Len(db) :
                        where_filter = None \/ db[i].filename = where_filter}
        score(i) == Relevance(question, db[i])
        before(j, i) == score(j) > score(i) \/ (score(j) = score(i) /\ j < i)
        rank(i) == Cardinality({j \in eligible : before(j, i)}) + 1
        n == Min(k, Cardinality(eligible))
        at(r) == CHOOSE i \in eligible : rank(i) = r
    IN  [r \in 1..n |-> [doc |-> db[at(r)], score |-> score(at(r))]]

\* retrieve_with_scores that never passes the filter to the search
retrieve_with_scores_unfiltered(question, filter_filename) ==
    IF vector_store = None THEN [docs |-> <<>>, scores |-> <<>>]
    ELSE LET results == similarity_search_with_relevance_scores(
                            chroma_db, question, TopK, None)
         IN  [docs |-> [r \in 1..Len(results) |-> results[r].doc],
              scores |-> [r \in 1..Len(results) |-> results[r].score]]

\* retrieve_with_scores without the test of lines 281-282: the search goes
\* to whatever the persist directory holds
retrieve_with_scores_no_guard(question, filter_filename) ==
    LET where_filter == IF filter_filename /= None /\ filter_filename /= ""
                        THEN filter_filename ELSE None
        results == similarity_search_with_relevance_scores(
                       chroma_db, question, TopK, where_filter)
    IN  [docs |-> [r \in 1..Len(results) |-> results[r].doc],
         scores |-> [r \in 1..Len(results) |-> results[r].score]]

retrieve_with_scores(question, filter_filename) ==
    IF vector_store = None THEN [docs |-> <<>>, scores |-> <<>>]
    ELSE LET where_filter == IF filter_filename /= None /\ filter_filename /= ""
                             THEN filter_filename ELSE None
             results == similarity_search_with_relevance_scores(
                            chroma_db, question, TopK, where_filter)
         IN  [docs |-> [r \in 1..Len(results) |-> results[r].doc],
              scores |-> [r \in 1..Len(results) |-> results[r].score]]

\* -------------------------------------------------------------- ingestion
EmptyDict == [f \in {} |-> 0]

init_ollama(ollama_up) == IF ollama_up THEN "ChatOllama" ELSE None

\* Chroma.from_documents(texts, persist_directory="./chroma_db"): opens the
\* collection kept in the persist directory, creating it when absent, and
\* adds the chunks to it.
from_documents(persisted, texts) == persisted \o texts

\* vector_store.add_documents(texts)
add_documents(collection, texts) == collection \o texts

\* ingest_pdf whose registry adds the new batch to the count the filename
\* already has, instead of the assignment of line 235
ingest_pdf_accumulate(file, ollama_up) ==
    LET documents == load_pdf_with_pymupdf(file)
        texts == split_documents(documents)
    IN  IF documents = <<>>
        THEN [raised |-> TRUE, error |-> "ValueError",
              vector_store |-> vector_store, chroma_db |-> chroma_db,
              retriever |-> retriever, llm |-> llm,
              uploaded_documents |-> uploaded_documents]
        ELSE [raised |-> FALSE, chunks |-> Len(texts),
              vector_store |-> IF vector_store = None THEN "Chroma" ELSE vector_store,
              chroma_db |-> IF vector_store = None
                            THEN from_documents(chroma_db, texts)
                            ELSE add_documents(chroma_db, texts),
              retriever |-> "retriever",
              llm |-> IF llm = None THEN init_ollama(ollama_up) ELSE llm,
              uploaded_documents |->
                  [f \in DOMAIN uploaded_documents \cup {file.filename} |->
                      IF f = file.filename
                      THEN IF f \in DOMAIN uploaded_documents
                           THEN uploaded_documents[f] + Len(texts)
                           ELSE Len(texts)
                      ELSE uploaded_documents[f]]]

\* The values ingest_pdf leaves in the globals, and what it returns or raises.
ingest_pdf(file, ollama_up) ==
    LET documents == load_pdf_with_pymupdf(file)
        texts == split_documents(documents)
    IN  IF documents = <<>>
        THEN [raised |-> TRUE, error |-> "ValueError",
              vector_store |-> vector_store, chroma_db |-> chroma_db,
              retriever |-> retriever, llm |-> llm,
              uploaded_documents |-> uploaded_documents]
        ELSE [raised |-> FALSE, chunks |-> Len(texts),
              vector_store |-> IF vector_store = None THEN "Chroma" ELSE vector_store,
              chroma_db |-> IF vector_store = None
                            THEN from_documents(chroma_db, texts)
                            ELSE add_documents(chroma_db, texts),
              retriever |-> "retriever",
              llm |-> IF llm = None THEN init_ollama(ollama_up) ELSE llm,
              uploaded_documents |->
                  [f \in DOMAIN uploaded_documents \cup {file.filename} |->
                      IF f = file.filename THEN Len(texts) ELSE uploaded_documents[f]]]

\* ------------------------------------------------------- answer generation
format_docs(docs) ==
    LET RECURSIVE Join(_)
        Join(ds) == IF ds = <<>> THEN <<>>
                    ELSE IF Len(ds) = 1 THEN ds[1].page_content
                    ELSE ds[1].page_content \o Lit("\n\n", 2) \o Join(Tail(ds))
    IN  Join(docs)

\* f"{score:.2f}": thousandths to the nearest hundredth
Round2(score) == (score + 5) \div 10

\* One citation per retrieved chunk.  The snippet is the first 150 characters
\* followed by "..."; its newlines become spaces, which the piece
\* representation of texts does not show.
BuildCitations(docs, scores) ==
    [i \in 1..Len(docs) |->
        [filename |-> docs[i].filename,
         page |-> docs[i].page,
         relevance |-> Round2(IF i <= Len(scores) THEN scores[i] ELSE 0),
         snippet |-> Take(docs[i].page_content, SnippetChars) \o Lit("...", 3)]]

RECURSIVE SumSeq(_)
SumSeq(xs) == IF xs = <<>> THEN 0 ELSE xs[1] + SumSeq(Tail(xs))

RECURSIVE MaxSeq(_)
MaxSeq(xs) == IF Len(xs) = 1 THEN xs[1] ELSE Max(xs[1], MaxSeq(Tail(xs)))

FallbackPrefix == Lit("Based on the document, here's the relevant content:\n\n", 53)

\* the fallback answer without the [:1500] slice
FallbackAnswer_untruncated(context) ==
    FallbackPrefix \o context \o Lit("...", 3)

FallbackAnswer(context) ==
    FallbackPrefix \o Take(context, FallbackContextChars) \o Lit("...", 3)

UploadFirstMessage == Lit("Please upload a PDF first! Click the upload button...", 103)

Elapsed == "elapsed"

\* The returned triple and the log get_answer leaves, with a record of the
\* calls it made: recorded (the turns passed to add_to_history, in order),
\* searched (the index search was issued), llm_invoked (chain.invoke was
\* called), llm_raised (and threw).

\* the casual branch recording the reply but not the question
CasualAnswer_reply_only(question) ==
    [history |-> add_to_history(conversation_history, "assistant", FriendlyResponse[question]),
     recorded |-> << Turn("assistant", FriendlyResponse[question]) >>,
     outcome |-> "returned", searched |-> FALSE, llm_invoked |-> FALSE, llm_raised |-> FALSE,
     answer |-> FriendlyResponse[question],
     citations |-> <<>>,
     metadata |-> [confidence |-> 1000,
                   tokens_input |-> count_tokens(Txt(question)),
                   tokens_output |-> count_tokens(FriendlyResponse[question]),
                   latency_ms |-> Elapsed,
                   is_casual |-> TRUE]]

\* the casual branch recording the question but not the reply
CasualAnswer_question_only(question) ==
    LET friendly_response == FriendlyResponse[question] IN
    [history |-> add_to_history(conversation_history, "user", Txt(question)),
     recorded |-> << Turn("user", Txt(question)) >>,
     outcome |-> "returned", searched |-> FALSE, llm_invoked |-> FALSE, llm_raised |-> FALSE,
     answer |-> friendly_response,
     citations |-> <<>>,
     metadata |-> [confidence |-> 1000,
                   tokens_input |-> count_tokens(Txt(question)),
                   tokens_output |-> count_tokens(friendly_response),
                   latency_ms |-> Elapsed,
                   is_casual |-> TRUE]]

\* get_answer, lines 316-326
CasualAnswer(question) ==
    LET friendly_response == FriendlyResponse[question] IN
    [history |-> add_to_history(add_to_history(conversation_history, "user", Txt(question)),
                                "assistant", friendly_response),
     recorded |-> << Turn("user", Txt(question)), Turn("assistant", friendly_response) >>,
     outcome |-> "returned", searched |-> FALSE, llm_invoked |-> FALSE, llm_raised |-> FALSE,
     answer |-> friendly_response,
     citations |-> <<>>,
     metadata |-> [confidence |-> 1000,
                   tokens_input |-> count_tokens(Txt(question)),
                   tokens_output |-> count_tokens(friendly_response),
                   latency_ms |-> Elapsed,
                   is_casual |-> TRUE]]

\* the guidance branch recording its message as an assistant turn
UploadFirstAnswer_recorded ==
    [history |-> add_to_history(conversation_history, "assistant", UploadFirstMessage),
     recorded |-> << Turn("assistant", UploadFirstMessage) >>,
     outcome |-> "returned", searched |-> FALSE, llm_invoked |-> FALSE, llm_raised |-> FALSE,
     answer |-> UploadFirstMessage,
     citations |-> <<>>,
     metadata |-> [confidence |-> 0, tokens_used |-> 0, latency_ms |-> "0"]]

\* get_answer, lines 328-333
UploadFirstAnswer ==
    [history |-> conversation_history,
     recorded |-> <<>>,
     outcome |-> "returned", searched |-> FALSE, llm_invoked |-> FALSE, llm_raised |-> FALSE,
     answer |-> UploadFirstMessage,
     citations |-> <<>>,
     metadata |-> [confidence |-> 0, tokens_used |-> 0, latency_ms |-> "0"]]

\* get_answer with line 336 moved below line 378: the conversation context is
\* rendered from the log before the question is appended to it
Synthesize_context_before_question(question, use_history, llm_result, asked, docs, scores, context) ==
    LET avg_score == IF scores /= <<>> THEN SumSeq(scores) \div Len(scores) ELSE 0
        max_score == IF scores /= <<>> THEN MaxSeq(scores) ELSE 0
        citations == BuildCitations(docs, scores)
        input_tokens == count_tokens(context \o Txt(question))
        conversation_context == IF use_history THEN get_conversation_context(conversation_history) ELSE <<>>
    IN  IF llm = None
        THEN [history |-> add_to_history(asked, "assistant", FallbackAnswer(context)),
              recorded |-> << Turn("user", Txt(question)),
                              Turn("assistant", FallbackAnswer(context)) >>,
              outcome |-> "returned", searched |-> TRUE, llm_invoked |-> FALSE, llm_raised |-> FALSE,
              docs |-> docs, scores |-> scores,
              answer |-> FallbackAnswer(context),
              citations |-> citations,
              metadata |-> [confidence |-> max_score,
                            avg_relevance |-> avg_score,
                            tokens_input |-> input_tokens,
                            tokens_output |-> count_tokens(FallbackAnswer(context)),
                            latency_ms |-> Elapsed,
                            llm_used |-> FALSE]]
        ELSE IF llm_result.ok
        THEN [history |-> add_to_history(asked, "assistant", llm_result.text),
              recorded |-> << Turn("user", Txt(question)), Turn("assistant", llm_result.text) >>,
              outcome |-> "returned", searched |-> TRUE, llm_invoked |-> TRUE, llm_raised |-> FALSE,
              docs |-> docs, scores |-> scores,
              conversation_context |-> conversation_context,
              answer |-> llm_result.text,
              citations |-> citations,
              metadata |-> [confidence |-> max_score,
                            avg_relevance |-> avg_score,
                            tokens_input |-> input_tokens,
                            tokens_output |-> count_tokens(llm_result.text),
                            tokens_total |-> <<"sum", input_tokens, count_tokens(llm_result.text)>>,
                            latency_ms |-> Elapsed,
                            llm_used |-> TRUE,
                            model |-> "OLLAMA_MODEL"]]
        ELSE [history |-> add_to_history(asked, "assistant", FallbackAnswer(context)),
              recorded |-> << Turn("user", Txt(question)),
                              Turn("assistant", FallbackAnswer(context)) >>,
              outcome |-> "returned", searched |-> TRUE, llm_invoked |-> TRUE, llm_raised |-> TRUE,
              docs |-> docs, scores |-> scores,
              conversation_context |-> conversation_context,
              answer |-> FallbackAnswer(context),
              citations |-> citations,
              metadata |-> [confidence |-> max_score,
                            error |-> llm_result.error,
                            latency_ms |-> Elapsed]]

\* get_answer, lines 342-441, once the question is recorded (asked) and the
\* retrieval has returned docs and scores.  llm_result: what chain.invoke
\* does, [ok |-> TRUE, text |-> t] or [ok |-> FALSE, error |-> str(e)].
Synthesize(question, use_history, llm_result, asked, docs, scores, context) ==
    LET avg_score == IF scores /= <<>> THEN SumSeq(scores) \div Len(scores) ELSE 0
        max_score == IF scores /= <<>> THEN MaxSeq(scores) ELSE 0
        citations == BuildCitations(docs, scores)
        input_tokens == count_tokens(context \o Txt(question))
        conversation_context == IF use_history THEN get_conversation_context(asked) ELSE <<>>
    IN  IF llm = None
        THEN [history |-> add_to_history(asked, "assistant", FallbackAnswer(context)),
              recorded |-> << Turn("user", Txt(question)),
                              Turn("assistant", FallbackAnswer(context)) >>,
              outcome |-> "returned", searched |-> TRUE, llm_invoked |-> FALSE, llm_raised |-> FALSE,
              docs |-> docs, scores |-> scores,
              answer |-> FallbackAnswer(context),
              citations |-> citations,
              metadata |-> [confidence |-> max_score,
                            avg_relevance |-> avg_score,
                            tokens_input |-> input_tokens,
                            tokens_output |-> count_tokens(FallbackAnswer(context)),
                            latency_ms |-> Elapsed,
                            llm_used |-> FALSE]]
        ELSE IF llm_result.ok
        THEN [history |-> add_to_history(asked, "assistant", llm_result.text),
              recorded |-> << Turn("user", Txt(question)), Turn("assistant", llm_result.text) >>,
              outcome |-> "returned", searched |-> TRUE, llm_invoked |-> TRUE, llm_raised |-> FALSE,
              docs |-> docs, scores |-> scores,
              conversation_context |-> conversation_context,
              answer |-> llm_result.text,
              citations |-> citations,
              metadata |-> [confidence |-> max_score,
                            avg_relevance |-> avg_score,
                            tokens_input |-> input_tokens,
                            tokens_output |-> count_tokens(llm_result.text),
                            tokens_total |-> <<"sum", input_tokens, count_tokens(llm_result.text)>>,
                            latency_ms |-> Elapsed,
                            llm_used |-> TRUE,
                            model |-> "OLLAMA_MODEL"]]
        ELSE [history |-> add_to_history(asked, "assistant", FallbackAnswer(context)),
              recorded |-> << Turn("user", Txt(question)),
                              Turn("assistant", FallbackAnswer(context)) >>,
              outcome |-> "returned", searched |-> TRUE, llm_invoked |-> TRUE, llm_raised |-> TRUE,
              docs |-> docs, scores |-> scores,
              conversation_context |-> conversation_context,
              answer |-> FallbackAnswer(context),
              citations |-> citations,
              metadata |-> [confidence |-> max_score,
                            error |-> llm_result.error,
                            latency_ms |-> Elapsed]]

\* get_answer, lines 335-339: record the question, then retrieve.
\* search_raises: the index search throws, and nothing catches it.
Retrieved(question, use_history, llm_result, asked, found) ==
    Synthesize(question, use_history, llm_result, asked,
               found.docs, found.scores, format_docs(found.docs))

GroundedAnswer(question, filter_filename, use_history, search_raises, llm_result) ==
    IF search_raises
    THEN [history |-> add_to_history(conversation_history, "user", Txt(question)),
          recorded |-> << Turn("user", Txt(question)) >>,
          outcome |-> "raised", searched |-> TRUE, llm_invoked |-> FALSE, llm_raised |-> FALSE]
    ELSE Retrieved(question, use_history, llm_result,
                   add_to_history(conversation_history, "user", Txt(question)),
                   retrieve_with_scores(question, filter_filename))

\* get_answer testing the index before the casual check
get_answer_index_first(question, filter_filename, use_history, search_raises, llm_result) ==
    IF vector_store = None THEN UploadFirstAnswer
    ELSE IF IsCasual[question] THEN CasualAnswer(question)
    ELSE GroundedAnswer(question, filter_filename, use_history, search_raises, llm_result)

\* get_answer without the vector_store test of line 328
get_answer_no_index_check(question, filter_filename, use_history, search_raises, llm_result) ==
    IF IsCasual[question] THEN CasualAnswer(question)
    ELSE GroundedAnswer(question, filter_filename, use_history, search_raises, llm_result)

get_answer(question, filter_filename, use_history, search_raises, llm_result) ==
    IF IsCasual[question] THEN CasualAnswer(question)
    ELSE IF vector_store = None THEN UploadFirstAnswer
    ELSE GroundedAnswer(question, filter_filename, use_history, search_raises, llm_result)

\* ------------------------------------------------------------------ inputs
Questions == {"hi", "thanks for chapter 3", "page 5"}
Filters == {None, "", "a.pdf", "b.pdf"}
LLMResults == {[ok |-> TRUE, text |-> Lit("llm answer", 260)],
               [ok |-> FALSE, error |-> "connection refused"]}

\* ------------------------------------------------------------ observability
\* observability.py keeps two lists, interactions_log and error_log.  A
\* list is held here as runs: <<record, n>> stands for n equal records in a
\* row, no two neighbouring runs having the same record.  daily_stats is
\* held as the set of days that have an entry; its counters, sums of
\* measured latencies and token counts, are left out.
MaxInteractionsLogged == 1000
MaxErrorsLogged == 100
QuestionChars == 200
AnswerPreviewChars == 100
ErrorMessageChars == 500
DefaultLimit == 50
\* request.question[:100] in the context of a chat error (main.py)
ErrorQuestionChars == 100

\* datetime.now(): the clock is not modelled, every call is made "now",
\* on the day "today"
Now == "now"
DateKey == "today"

\* len(log)
RECURSIVE LogLen(_)
LogLen(log) == IF log = <<>> THEN 0 ELSE log[1][2] + LogLen(Tail(log))

\* n times log.append(record)
AppendRun(log, record, n) ==
    IF n = 0 THEN log
    ELSE IF log /= <<>> /\ log[Len(log)][1] = record
    THEN [log EXCEPT ![Len(log)] = <<record, @[2] + n>>]
    ELSE Append(log, <<record, n>>)

\* log.pop(0)
PopFirst(log) ==
    IF log[1][2] > 1 THEN [log EXCEPT ![1] = <<@[1], @[2] - 1>>] ELSE Tail(log)

\* log[k:] for k >= 0
RECURSIVE DropFirst(_, _)
DropFirst(log, k) ==
    IF k <= 0 \/ log = <<>> THEN log
    ELSE IF log[1][2] <= k THEN DropFirst(Tail(log), k - log[1][2])
    ELSE <<(<<log[1][1], log[1][2] - k>>)>> \o Tail(log)

\* log[-limit:], as Python slices: the last limit records for limit > 0,
\* the whole list for limit = 0 (-0 is 0), and log[|limit|:] for limit < 0
SliceFromMinus(log, limit) ==
    IF limit > 0
    THEN DropFirst(log, LogLen(log) - limit)
    ELSE DropFirst(log, -limit)

\* log[::-1]
Reversed(log) == [i \in 1..Len(log) |-> log[Len(log) + 1 - i]]

\* [i for i in log if i["session_id"] == session_id]
RECURSIVE OfSession(_, _)
OfSession(log, session_id) ==
    IF log = <<>> THEN <<>>
    ELSE LET rest == OfSession(SubSeq(log, 1, Len(log) - 1), session_id)
             run == log[Len(log)]
         IN  IF run[1].session_id = session_id
             THEN AppendRun(rest, run[1], run[2])
             ELSE rest

\* log_interaction that never drops a record
log_interaction_keep_all(session_id, question, answer, latency, tokens_input, tokens_output, confidence, model, was_refused, filter_used) ==
    LET interaction ==
            [timestamp |-> Now,
             session_id |-> session_id,
             question |-> Take(question, QuestionChars),
             answer_preview |-> Take(answer, AnswerPreviewChars),
             latency_ms |-> <<"ms", latency>>,
             tokens_input |-> tokens_input,
             tokens_output |-> tokens_output,
             tokens_total |-> <<"sum", tokens_input, tokens_output>>,
             confidence |-> confidence,
             model |-> model,
             was_refused |-> was_refused,
             filter_used |-> filter_used]
    IN  [interactions_log |-> AppendRun(interactions_log, interaction, 1),
         daily_stats |-> daily_stats \cup {DateKey},
         evicted |-> 0]

\* log_interaction, lines 15-66: the new lists, and how many records the
\* call dropped
log_interaction(session_id, question, answer, latency, tokens_input, tokens_output, confidence, model, was_refused, filter_used) ==
    LET interaction ==
            [timestamp |-> Now,
             session_id |-> session_id,
             question |-> Take(question, QuestionChars),
             answer_preview |-> Take(answer, AnswerPreviewChars),
             latency_ms |-> <<"ms", latency>>,
             tokens_input |-> tokens_input,
             tokens_output |-> tokens_output,
             tokens_total |-> <<"sum", tokens_input, tokens_output>>,
             confidence |-> confidence,
             model |-> model,
             was_refused |-> was_refused,
             filter_used |-> filter_used]
        appended == AppendRun(interactions_log, interaction, 1)
    IN  IF LogLen(appended) > MaxInteractionsLogged
        THEN [interactions_log |-> PopFirst(appended),
              daily_stats |-> daily_stats \cup {DateKey},
              evicted |-> 1]
        ELSE [interactions_log |-> appended,
              daily_stats |-> daily_stats \cup {DateKey},
              evicted |-> 0]

\* log_error, lines 68-92
log_error(error_type, error_message, context) ==
    LET error == [timestamp |-> Now,
                  type |-> error_type,
                  message |-> Take(error_message, ErrorMessageChars),
                  context |-> context]
        appended == AppendRun(error_log, error, 1)
    IN  IF LogLen(appended) > MaxErrorsLogged
        THEN [error_log |-> PopFirst(appended), evicted |-> 1]
        ELSE [error_log |-> appended, evicted |-> 0]

\* get_interaction_history, lines 133-141: `if session_id:` is false for
\* None and for the empty string
get_interaction_history(session_id, limit) ==
    IF session_id /= None /\ session_id /= ""
    THEN Reversed(SliceFromMinus(OfSession(interactions_log, session_id), limit))
    ELSE Reversed(SliceFromMinus(interactions_log, limit))

metrics == <<interactions_log, error_log, daily_stats>>

\* observability.py, lines 11-13
InitMetrics ==
    /\ interactions_log = <<>>
    /\ error_log = <<>>
    /\ daily_stats = {}

\* ----------------------------------------------------------------- actions
\* the requests the server may hold at a time
MaxRequests == 3
Requests == 1..MaxRequests
IdleRequest == [pc |-> "idle"]

\* rag.py, lines 13-17
InitRag ==
    /\ vector_store = None
    /\ chroma_db = <<>>
    /\ retriever = None
    /\ llm = None
    /\ conversation_history = <<>>
    /\ uploaded_documents = EmptyDict
    /\ last = [op |-> "start"]

\* rag loaded on its own: its functions are called one after the other
Init ==
    /\ InitRag
    /\ imported_history = <<>>
    /\ binding = "not imported"
    /\ requests = [r \in Requests |-> IdleRequest]
    /\ loop = 0
    /\ InitMetrics

\* the application: main.py has imported rag, no request has arrived
InitApp ==
    /\ InitRag
    /\ imported_history = <<>>
    /\ binding = "same list"
    /\ requests = [r \in Requests |-> IdleRequest]
    /\ loop = 0
    /\ InitMetrics

\* ingest_pdf(file_path)
Ingest(file, ollama_up) ==
    \E r \in {ingest_pdf(file, ollama_up)} :
    /\ vector_store' = r.vector_store
    /\ chroma_db' = r.chroma_db
    /\ retriever' = r.retriever
    /\ llm' = r.llm
    /\ uploaded_documents' = r.uploaded_documents
    /\ last' = IF r.raised
               THEN [op |-> "ingest_pdf", file |-> file, outcome |-> "raised",
                     error |-> r.error]
               ELSE [op |-> "ingest_pdf", file |-> file, outcome |-> "returned",
                     chunks |-> r.chunks]
    /\ UNCHANGED <<conversation_history, imported_history, binding, requests, loop>>
    /\ UNCHANGED metrics

\* get_answer(question, filter_filename, use_history); last.evicted is the
\* number of turns the call's appends pushed out of the log
GetAnswer(question, filter_filename, use_history, search_raises, llm_result) ==
    \E r \in {get_answer(question, filter_filename, use_history, search_raises, llm_result)} :
    /\ conversation_history' = r.history
    /\ last' = [f \in (DOMAIN r \ {"history"}) \cup
                      {"op", "question", "filter_filename", "use_history", "evicted"} |->
                   CASE f = "op" -> "get_answer"
                     [] f = "question" -> question
                     [] f = "filter_filename" -> filter_filename
                     [] f = "use_history" -> use_history
                     [] f = "evicted" -> Len(conversation_history) + Len(r.recorded)
                                             - Len(r.history)
                     [] OTHER -> r[f]]
    /\ Appends(r.recorded)
    /\ UNCHANGED <<vector_store, chroma_db, retriever, llm, uploaded_documents,
                   requests, loop>>
    /\ UNCHANGED metrics

\* clear_knowledge_base() without line 271: the conversation log is kept
ClearKnowledgeBase_keep_history(delete_fails, rmtree_fails) ==
    /\ chroma_db' = IF chroma_db = <<>> THEN <<>>
                    ELSE IF (vector_store /= None /\ ~delete_fails) \/ ~rmtree_fails
                    THEN <<>>
                    ELSE chroma_db
    /\ vector_store' = None
    /\ retriever' = None
    /\ uploaded_documents' = EmptyDict
    /\ last' = [op |-> "clear_knowledge_base", outcome |-> "returned"]
    /\ UNCHANGED <<conversation_history, imported_history, binding>>
    /\ UNCHANGED <<llm, requests, loop>>
    /\ UNCHANGED metrics

\* clear_knowledge_base() that resets the LLM handle with the rest
ClearKnowledgeBase_reset_llm(delete_fails, rmtree_fails) ==
    /\ chroma_db' = IF chroma_db = <<>> THEN <<>>
                    ELSE IF (vector_store /= None /\ ~delete_fails) \/ ~rmtree_fails
                    THEN <<>>
                    ELSE chroma_db
    /\ vector_store' = None
    /\ retriever' = None
    /\ uploaded_documents' = EmptyDict
    /\ conversation_history' = <<>>
    /\ llm' = None
    /\ last' = [op |-> "clear_knowledge_base", outcome |-> "returned"]
    /\ Rebinds
    /\ UNCHANGED <<requests, loop>>
    /\ UNCHANGED metrics

\* clear_knowledge_base(): delete_fails / rmtree_fails say whether
\* delete_collection() and shutil.rmtree() throw when they are attempted.
ClearKnowledgeBase(delete_fails, rmtree_fails) ==
    /\ chroma_db' = IF chroma_db = <<>> THEN <<>>
                    ELSE IF (vector_store /= None /\ ~delete_fails) \/ ~rmtree_fails
                    THEN <<>>
                    ELSE chroma_db
    /\ vector_store' = None
    /\ retriever' = None
    /\ uploaded_documents' = EmptyDict
    /\ conversation_history' = <<>>
    /\ last' = [op |-> "clear_knowledge_base", outcome |-> "returned"]
    /\ Rebinds
    /\ UNCHANGED <<llm, requests, loop>>
    /\ UNCHANGED metrics

\* clear_conversation()
ClearConversation ==
    /\ conversation_history' = <<>>
    /\ last' = [op |-> "clear_conversation", outcome |-> "returned"]
    /\ Rebinds
    /\ UNCHANGED <<vector_store, chroma_db, retriever, llm, uploaded_documents,
                   requests, loop>>
    /\ UNCHANGED metrics

\* the number of chunks the index referenced by vector_store holds
IndexSize == IF vector_store = None THEN 0 ELSE Len(chroma_db)

IngestStep ==
    \E file \in PdfFiles, ollama_up \in BOOLEAN :
        /\ Len(chroma_db) + Len(split_documents(load_pdf_with_pymupdf(file))) <= MaxChunks
        /\ Ingest(file, ollama_up)

AskStep ==
    \E question \in Questions, filter_filename \in Filters, use_history \in BOOLEAN,
       search_raises \in BOOLEAN, llm_result \in LLMResults :
        /\ Len(conversation_history) < MaxTurns
        /\ GetAnswer(question, filter_filename, use_history, search_raises, llm_result)

ClearKnowledgeBaseStep ==
    \E delete_fails \in BOOLEAN, rmtree_fails \in BOOLEAN :
        ClearKnowledgeBase(delete_fails, rmtree_fails)

Next ==
    \/ IngestStep
    \/ AskStep
    \/ ClearKnowledgeBaseStep
    \/ ClearConversation

Spec == Init /\ [][Next]_vars

\* The conversation memory under long runs: the same handlers, asked with
\* one greeting and one document question, one document and no LLM, and no
\* limit on the number of questions.
MemoryIngestStep ==
    /\ chroma_db = <<>>
    /\ Ingest(DocB, FALSE)

MemoryAskStep ==
    \E question \in {"hi", "page 5"} :
        GetAnswer(question, None, TRUE, FALSE, [ok |-> FALSE, error |-> "connection refused"])

MemoryClearKnowledgeBaseStep == ClearKnowledgeBase(FALSE, FALSE)

NextMemory ==
    \/ MemoryIngestStep
    \/ MemoryAskStep
    \/ MemoryClearKnowledgeBaseStep
    \/ ClearConversation

SpecMemory == Init /\ [][NextMemory]_vars

\* main.py, lines 213-219: GET /conversation returns the list main.py's own
\* name conversation_history is bound to, and its length
GetChatHistory ==
    /\ last' = [op |-> "get_chat_history",
                history |-> imported_history,
                message_count |-> Len(imported_history)]
    /\ UNCHANGED <<vector_store, chroma_db, retriever, llm, conversation_history,
                   uploaded_documents, imported_history, binding, requests, loop>>
    /\ UNCHANGED metrics

\* POST /chat with a greeting: the turns it records need no index
BoundaryAskStep ==
    GetAnswer("hi", None, TRUE, FALSE, [ok |-> FALSE, error |-> "connection refused"])

\* The application's conversation endpoints, one request at a time: POST
\* /chat, DELETE /conversation, DELETE /files and GET /conversation.
NextBoundary ==
    \/ BoundaryAskStep
    \/ MemoryClearKnowledgeBaseStep
    \/ ClearConversation
    \/ GetChatHistory

SpecBoundary == InitApp /\ [][NextBoundary]_vars

\* The prompt's conversation context: one document, the LLM reachable and
\* answering, a greeting and a document question asked with and without
\* use_history, and no limit on the number of questions.
ContextIngestStep ==
    /\ chroma_db = <<>>
    /\ Ingest(DocB, TRUE)

ContextAskStep ==
    \E question \in {"hi", "page 5"}, use_history \in BOOLEAN :
        GetAnswer(question, None, use_history, FALSE,
                  [ok |-> TRUE, text |-> Lit("llm answer", 260)])

NextContext ==
    \/ ContextIngestStep
    \/ ContextAskStep
    \/ ClearConversation

SpecContext == Init /\ [][NextContext]_vars

\* The classifier on its own: is_greeting_or_casual applied once to a message
\* put together from at most MaxWords words, with "!", "," or a blank
\* between them, bare or with blanks around.
MaxWords == 3
Words == { <<"H","i">>, <<"p","a","g","e">>, <<"5">>, <<"t","h","a","n","k","s">> }
Separators == { <<" ">>, <<"!">>, <<",">> }

RECURSIVE Messages(_)
Messages(n) ==
    IF n <= 1 THEN Words
    ELSE Messages(n - 1) \cup
         {m \o s \o w : m \in Messages(n - 1), s \in Separators, w \in Words}

Texts == Messages(MaxWords) \cup {<<" ">> \o m \o <<" ", "\n">> : m \in Messages(MaxWords)}

InitClassifier ==
    /\ vector_store = None
    /\ chroma_db = <<>>
    /\ retriever = None
    /\ llm = None
    /\ conversation_history = <<>>
    /\ uploaded_documents = EmptyDict
    /\ last \in {[op |-> "message", text |-> text] : text \in Texts}
    /\ imported_history = <<>>
    /\ binding = "not imported"
    /\ requests = [r \in Requests |-> IdleRequest]
    /\ loop = 0
    /\ InitMetrics

Classify ==
    /\ last.op = "message"
    /\ last' = [op |-> "is_greeting_or_casual", text |-> last.text,
                result |-> is_greeting_or_casual(last.text)]
    /\ UNCHANGED <<vector_store, chroma_db, retriever, llm, conversation_history,
                   uploaded_documents, imported_history, binding, requests, loop>>
    /\ UNCHANGED metrics

NextClassifier == Classify

SpecClassifier == InitClassifier /\ [][NextClassifier]_vars

\* ------------------------------------------------- observability, actions
rag_state == <<vector_store, chroma_db, retriever, llm, conversation_history,
               uploaded_documents, imported_history, binding, requests, loop>>

Sessions == {"s1", "s2"}

\* log_interaction(session_id, ...) for an answered question
LogInteraction(session_id) ==
    \E m \in {log_interaction(session_id, Txt("page 5"), Lit("llm answer", 260), Elapsed,
                              count_tokens(Txt("page 5")),
                              count_tokens(Lit("llm answer", 260)),
                              700, "OLLAMA_MODEL", FALSE, None)} :
        /\ interactions_log' = m.interactions_log
        /\ daily_stats' = m.daily_stats
        /\ last' = [op |-> "log_interaction", session_id |-> session_id,
                    evicted |-> m.evicted]
        /\ UNCHANGED error_log
        /\ UNCHANGED rag_state

\* log_error(error_type, error_message, context)
LogError(error_type) ==
    \E m \in {log_error(error_type, Lit("str(e)", 40), EmptyDict)} :
        /\ error_log' = m.error_log
        /\ last' = [op |-> "log_error", error_type |-> error_type, evicted |-> m.evicted]
        /\ UNCHANGED <<interactions_log, daily_stats>>
        /\ UNCHANGED rag_state

\* clear_metrics(), lines 143-149
ClearMetrics ==
    /\ interactions_log' = <<>>
    /\ error_log' = <<>>
    /\ daily_stats' = {}
    /\ last' = [op |-> "clear_metrics"]
    /\ UNCHANGED rag_state

\* main.py, lines 233-241: GET /metrics/history?session_id=..&limit=..
GetInteractionHistory(session_id, limit) ==
    /\ last' = [op |-> "get_interaction_history", session_id |-> session_id,
                limit |-> limit,
                interactions |-> get_interaction_history(session_id, limit)]
    /\ UNCHANGED metrics
    /\ UNCHANGED rag_state

\* The interaction history read back: a few interactions of two sessions
\* are logged, and the history is asked for with and without a session and
\* with limits from 0 up to the default.
MaxLogged == 3
HistoryLimits == {0, 1, 2, DefaultLimit}

HistoryLogStep ==
    \E session_id \in Sessions :
        /\ LogLen(interactions_log) < MaxLogged
        /\ LogInteraction(session_id)

HistoryReadStep ==
    \E session_id \in {None, ""} \cup Sessions, limit \in HistoryLimits :
        GetInteractionHistory(session_id, limit)

NextHistory ==
    \/ HistoryLogStep
    \/ HistoryReadStep

SpecHistory == Init /\ [][NextHistory]_vars

\* The two logs under long runs: interactions and errors are logged without
\* limit and the metrics are cleared at any time.  All interactions come
\* from session s1 and all errors from the chat handler, except that the
\* first record of a log may come from session s2, or from the upload
\* handler.
MetricsLogStep ==
    \E session_id \in Sessions :
        /\ session_id = "s1" \/ interactions_log = <<>>
        /\ LogInteraction(session_id)

MetricsErrorStep ==
    \E error_type \in {"chat_error", "upload_error"} :
        /\ error_type = "chat_error" \/ error_log = <<>>
        /\ LogError(error_type)

NextMetrics ==
    \/ MetricsLogStep
    \/ MetricsErrorStep
    \/ ClearMetrics

SpecMetrics == Init /\ [][NextMetrics]_vars

\* ------------------------------------------------- the server, step by step
\* main.py declares its handlers `async def` (lines 102-103, 143-144) and
\* they call get_answer and ingest_pdf, plain functions, with no await in
\* between: the event loop runs a handler from its first line to its return
\* before it takes up the next request.  loop is the request whose handler
\* is running, 0 when none is; requests[r] is request r's position in its
\* handler and the locals it holds.
ServerQuestions == {"hi", "history", "page 5"}
ServerFiles == {DocA, DocB, DocBlank}

ServerRequests ==
    {[pc |-> "arrived", kind |-> "chat", question |-> q, session_id |-> "default"] :
        q \in ServerQuestions}
        \cup {[pc |-> "arrived", kind |-> "upload", file |-> f] : f \in ServerFiles}

\* every handler as a thread of its own, free to run at any time
Scheduled_thread_pool(r) == TRUE

\* uploads on threads of their own, chat handlers on the event loop
Scheduled_threaded_uploads(r) ==
    loop \in {0, r} \/ requests[r].kind = "upload"

\* the event loop is free, or is running r's handler
Scheduled(r) == loop \in {0, r}

\* between the first line of its handler and the return
MidHandler(r) == requests[r].pc \notin {"idle", "arrived", "done"}

\* request r reaches the server
Arrive(r) ==
    /\ requests[r].pc = "idle"
    /\ \E request \in ServerRequests : requests' = [requests EXCEPT ![r] = request]
    /\ UNCHANGED <<vector_store, chroma_db, retriever, llm, conversation_history,
                   uploaded_documents, last, imported_history, binding, loop>>
    /\ UNCHANGED metrics

\* r's handler goes on to position pc with the locals it has
Goto(r, locals) ==
    /\ requests' = [requests EXCEPT ![r] = locals]
    /\ loop' = r
    /\ UNCHANGED metrics

\* metadata.get(key, default)
Get(metadata, key, default) == IF key \in DOMAIN metadata THEN metadata[key] ELSE default

\* main.py, lines 165-177: an answered chat request is logged
LogsInteraction(r, response) ==
    \E m \in {log_interaction(requests[r].session_id, Txt(requests[r].question),
                              response.answer, Elapsed,
                              Get(response.metadata, "tokens_input", count_tokens(<<>>)),
                              Get(response.metadata, "tokens_output", count_tokens(<<>>)),
                              Get(response.metadata, "confidence", 0),
                              Get(response.metadata, "model", "unknown"),
                              Get(response.metadata, "refused", FALSE),
                              None)} :
        /\ interactions_log' = m.interactions_log
        /\ daily_stats' = m.daily_stats
        /\ UNCHANGED error_log

\* main.py, lines 134-141 and 185-187: a handler that caught an exception
\* logs it before it answers with an HTTP error
LogsError(r, response) ==
    /\ error_log' =
           (IF response.op = "chat"
            THEN log_error("chat_error", Lit("str(e)", 40),
                           [question |-> Take(Txt(requests[r].question), ErrorQuestionChars)])
            ELSE log_error("upload_error", Lit("str(e)", 40),
                           [filename |-> requests[r].file.filename])).error_log
    /\ UNCHANGED <<interactions_log, daily_stats>>

\* r's handler returns or raises: the response goes out
Return(r, response) ==
    /\ requests' = [requests EXCEPT ![r] = [pc |-> "done"]]
    /\ loop' = 0
    /\ last' = response
    /\ IF response.outcome = "raised" THEN LogsError(r, response)
       ELSE IF response.op = "chat" THEN LogsInteraction(r, response)
       ELSE UNCHANGED metrics

\* add_to_history(role, content)
AddToHistory(role, content) ==
    /\ conversation_history' = add_to_history(conversation_history, role, content)
    /\ Appends(<< Turn(role, content) >>)

ChatResponse(r, outcome, answer, metadata) ==
    [op |-> "chat", request |-> r, question |-> requests[r].question,
     outcome |-> outcome, answer |-> answer, metadata |-> metadata]

\* get_answer, lines 316-318, 328-333, 336: the casual branch records the
\* question; the guidance branch returns; otherwise the question is recorded
ChatStart(r) ==
    /\ requests[r].pc = "arrived" /\ requests[r].kind = "chat"
    /\ Scheduled(r)
    /\ LET question == requests[r].question IN
       IF IsCasual[question]
       THEN /\ AddToHistory("user", Txt(question))
            /\ Goto(r, [requests[r] EXCEPT !.pc = "casual_reply"])
            /\ UNCHANGED last
       ELSE IF vector_store = None
       THEN /\ Return(r, ChatResponse(r, "returned", UploadFirstAnswer.answer,
                                      UploadFirstAnswer.metadata))
            /\ UNCHANGED <<conversation_history, imported_history, binding>>
       ELSE /\ AddToHistory("user", Txt(question))
            /\ Goto(r, [requests[r] EXCEPT !.pc = "retrieve"])
            /\ UNCHANGED last
    /\ UNCHANGED <<vector_store, chroma_db, retriever, llm, uploaded_documents>>

\* get_answer, lines 319-326
ChatCasualReply(r) ==
    /\ requests[r].pc = "casual_reply"
    /\ Scheduled(r)
    /\ AddToHistory("assistant", FriendlyResponse[requests[r].question])
    /\ Return(r, ChatResponse(r, "returned", FriendlyResponse[requests[r].question],
                              CasualAnswer(requests[r].question).metadata))
    /\ UNCHANGED <<vector_store, chroma_db, retriever, llm, uploaded_documents>>

\* get_answer, lines 339-354: the search, which may throw
ChatRetrieve(r, search_raises) ==
    /\ requests[r].pc = "retrieve"
    /\ Scheduled(r)
    /\ IF search_raises
       THEN Return(r, ChatResponse(r, "raised", <<>>, EmptyDict))
       ELSE \E found \in {retrieve_with_scores(requests[r].question, None)} :
                /\ Goto(r, [pc |-> "context", kind |-> "chat",
                            question |-> requests[r].question,
                            session_id |-> requests[r].session_id,
                            docs |-> found.docs, scores |-> found.scores])
                /\ UNCHANGED last
    /\ UNCHANGED <<vector_store, chroma_db, retriever, llm, conversation_history,
                   uploaded_documents, imported_history, binding>>

\* get_answer, lines 357-378: without an LLM the fallback answer is recorded
\* and returned; with one, the conversation context is read for the prompt
ChatContext(r) ==
    /\ requests[r].pc = "context"
    /\ Scheduled(r)
    /\ IF llm = None
       THEN \E res \in {Synthesize(requests[r].question, TRUE, [ok |-> FALSE, error |-> ""],
                                   conversation_history, requests[r].docs,
                                   requests[r].scores, format_docs(requests[r].docs))} :
                /\ AddToHistory("assistant", res.answer)
                /\ Return(r, ChatResponse(r, res.outcome, res.answer, res.metadata))
       ELSE /\ Goto(r, [pc |-> "invoke", kind |-> "chat",
                        question |-> requests[r].question,
                        session_id |-> requests[r].session_id,
                        docs |-> requests[r].docs, scores |-> requests[r].scores,
                        conversation_context |->
                            get_conversation_context(conversation_history)])
            /\ UNCHANGED <<last, conversation_history, imported_history, binding>>
    /\ UNCHANGED <<vector_store, chroma_db, retriever, llm, uploaded_documents>>

\* get_answer, lines 380-441: chain.invoke, then the answer (the LLM's, or
\* the fallback when the call threw) is recorded and returned
ChatReply(r, llm_result) ==
    /\ requests[r].pc = "invoke"
    /\ Scheduled(r)
    /\ \E res \in {Synthesize(requests[r].question, TRUE, llm_result,
                              conversation_history, requests[r].docs,
                              requests[r].scores, format_docs(requests[r].docs))} :
           /\ AddToHistory("assistant", res.answer)
           /\ Return(r, ChatResponse(r, res.outcome, res.answer, res.metadata))
    /\ UNCHANGED <<vector_store, chroma_db, retriever, llm, uploaded_documents>>

UploadResponse(r, outcome, chunks) ==
    [op |-> "upload", request |-> r, file |-> requests[r].file,
     outcome |-> outcome, chunks |-> chunks]

\* ingest_pdf, lines 185-199: load, raise on no document, split
UploadStart(r) ==
    /\ requests[r].pc = "arrived" /\ requests[r].kind = "upload"
    /\ Scheduled(r)
    /\ \E documents \in {load_pdf_with_pymupdf(requests[r].file)} :
           IF documents = <<>>
           THEN Return(r, UploadResponse(r, "raised", 0))
           ELSE /\ Goto(r, [pc |-> "test", kind |-> "upload", file |-> requests[r].file,
                            texts |-> split_documents(documents)])
                /\ UNCHANGED last
    /\ UNCHANGED <<vector_store, chroma_db, retriever, llm, conversation_history,
                   uploaded_documents, imported_history, binding>>

\* ingest_pdf, line 216: the test of vector_store
UploadTest(r) ==
    /\ requests[r].pc = "test"
    /\ Scheduled(r)
    /\ Goto(r, [pc |-> "store", kind |-> "upload", file |-> requests[r].file,
                texts |-> requests[r].texts,
                branch |-> IF vector_store = None THEN "create" ELSE "add"])
    /\ UNCHANGED <<vector_store, chroma_db, retriever, llm, conversation_history,
                   uploaded_documents, last, imported_history, binding>>

\* ingest_pdf, lines 218-225: the branch taken.  add_documents on a store
\* that is None throws
UploadStore(r) ==
    /\ requests[r].pc = "store"
    /\ Scheduled(r)
    /\ IF requests[r].branch = "create"
       THEN /\ vector_store' = "Chroma"
            /\ chroma_db' = from_documents(chroma_db, requests[r].texts)
            /\ Goto(r, [requests[r] EXCEPT !.pc = "finish"])
            /\ UNCHANGED last
       ELSE IF vector_store = None
       THEN /\ Return(r, UploadResponse(r, "raised", 0))
            /\ UNCHANGED <<vector_store, chroma_db>>
       ELSE /\ chroma_db' = add_documents(chroma_db, requests[r].texts)
            /\ Goto(r, [requests[r] EXCEPT !.pc = "finish"])
            /\ UNCHANGED <<vector_store, last>>
    /\ UNCHANGED <<retriever, llm, conversation_history, uploaded_documents,
                   imported_history, binding>>

\* ingest_pdf, lines 228-237: retriever, LLM, registry entry, return
UploadFinish(r, ollama_up) ==
    /\ requests[r].pc = "finish"
    /\ Scheduled(r)
    /\ retriever' = "retriever"
    /\ llm' = IF llm = None THEN init_ollama(ollama_up) ELSE llm
    /\ uploaded_documents' =
           [f \in DOMAIN uploaded_documents \cup {requests[r].file.filename} |->
               IF f = requests[r].file.filename THEN Len(requests[r].texts)
               ELSE uploaded_documents[f]]
    /\ Return(r, UploadResponse(r, "returned", Len(requests[r].texts)))
    /\ UNCHANGED <<vector_store, chroma_db, conversation_history,
                   imported_history, binding>>

NextServer ==
    \E r \in Requests :
        \/ Arrive(r)
        \/ ChatStart(r)
        \/ ChatCasualReply(r)
        \/ \E search_raises \in BOOLEAN : ChatRetrieve(r, search_raises)
        \/ ChatContext(r)
        \/ \E llm_result \in LLMResults : ChatReply(r, llm_result)
        \/ UploadStart(r)
        \/ UploadTest(r)
        \/ UploadStore(r)
        \/ \E ollama_up \in BOOLEAN : UploadFinish(r, ollama_up)

SpecServer == InitApp /\ [][NextServer]_vars

\* ================================================================= claims
Asked == last.op = "get_answer"
HistoryCap == 2 * MAX_CONVERSATION_HISTORY
LastTurn == conversation_history[Len(conversation_history)]

RECURSIVE SumCounts(_)
SumCounts(registry) ==
    IF DOMAIN registry = {} THEN 0
    ELSE LET f == CHOOSE g \in DOMAIN registry : TRUE
         IN  registry[f] + SumCounts([g \in DOMAIN registry \ {f} |-> registry[g]])

\* a document with no page of non-blank text: unreadable, or every page blank
ZeroSegments(file) ==
    ~file.openable \/ \A i \in 1..Len(file.pages) : file.pages[i].blank

\* C1: after any sequence of add_to_history calls, from casual and answered
\* queries in any order and with resets in between, the conversation log
\* never holds more than 2 * MAX_CONVERSATION_HISTORY = 20 turns.
C1_HistoryNeverExceedsCap == Len(conversation_history) <= HistoryCap

C1_Witness == Asked /\ Len(conversation_history) = HistoryCap

\* C2: after any sequence of completed ingest_pdf and clear_knowledge_base
\* calls, the chunk counts of the file registry sum to the number of chunks
\* the vector index holds.
C2_RegistrySumEqualsIndexSize == SumCounts(uploaded_documents) = IndexSize

\* C3: ingesting a document with no non-empty page segment fails with an
\* error and leaves the vector index, the retriever, the LLM handle and the
\* file registry exactly as they were.
C3_ZeroSegmentIngestFailsUntouched ==
    [][(last'.op = "ingest_pdf" /\ ZeroSegments(last'.file))
          => /\ last'.outcome = "raised"
             /\ UNCHANGED <<vector_store, chroma_db, retriever, llm, uploaded_documents>>]_vars

C3_Witness ==
    /\ last.op = "ingest_pdf" /\ last.file = DocBlank /\ last.outcome = "raised"
    /\ vector_store /= None /\ llm /= None /\ DOMAIN uploaded_documents /= {}

\* C4: get_answer never propagates a failure of the retrieval step or of the
\* LLM invocation: it always returns an (answer, citations, metadata) triple.
C4_GetAnswerNeverRaises == Asked => last.outcome = "returned"

\* C5: when an LLM is configured and its invocation fails on a READY index,
\* the answer is the fixed prefix followed by the grounding context cut to
\* 1500 characters, the metadata carries the error, the citations of the
\* retrieved chunks are returned, and the assistant turn holding that answer
\* is the last turn of the log.
C5_LLMFailureFallsBack ==
    (Asked /\ last.llm_raised) =>
        LET found == similarity_search_with_relevance_scores(
                         chroma_db, last.question, TopK,
                         IF last.filter_filename \in {None, ""} THEN None
                         ELSE last.filter_filename)
            context == format_docs([r \in 1..Len(found) |-> found[r].doc])
        IN  /\ vector_store /= None /\ llm /= None
            /\ last.outcome = "returned"
            /\ last.answer = FallbackPrefix \o Take(context, 1500) \o Lit("...", 3)
            /\ StrLen(last.answer) <= 53 + 1500 + 3
            /\ "error" \in DOMAIN last.metadata
            /\ \E r \in LLMResults : ~r.ok /\ last.metadata.error = r.error
            /\ Len(last.citations) = Len(found)
            /\ \A i \in 1..Len(found) :
                   /\ last.citations[i].filename = found[i].doc.filename
                   /\ last.citations[i].page = found[i].doc.page
            /\ conversation_history /= <<>>
            /\ LastTurn = Turn("assistant", last.answer)

C5_Witness ==
    /\ Asked /\ last.llm_raised /\ vector_store /= None /\ llm /= None
    /\ StrLen(format_docs(last.docs)) > 1500
    /\ Len(last.citations) >= 2

\* C6 as stated: every get_answer call on a non-casual question that returns,
\* the uninitialized-index path included, has appended an assistant turn
\* holding the returned answer, which is then the last turn of the log.
C6_EveryNonCasualAnswerRecorded ==
    (Asked /\ ~IsCasual[last.question] /\ last.outcome = "returned") =>
        /\ conversation_history /= <<>>
        /\ LastTurn = Turn("assistant", last.answer)

\* C6 amended: a returning get_answer call on a non-casual question leaves
\* the assistant turn holding the returned answer as the last turn of the
\* log when the index is READY; on an UNINITIALIZED index it returns the
\* guidance message and leaves the log as it was.
C6_AnswerRecordedWhenReady ==
    [][(last'.op = "get_answer" /\ ~IsCasual[last'.question] /\ last'.outcome = "returned")
          => IF vector_store = None
             THEN conversation_history' = conversation_history
             ELSE /\ conversation_history' /= <<>>
                  /\ conversation_history'[Len(conversation_history')]
                        = Turn("assistant", last'.answer)]_vars

C6_Witness ==
    /\ Asked /\ ~IsCasual[last.question] /\ last.outcome = "returned"
    /\ vector_store /= None /\ last.llm_invoked /\ ~last.llm_raised
    /\ LastTurn = Turn("assistant", last.answer)

\* C7: a question flagged casual gets, whatever the state of the index, the
\* canned response with confidence 1.0, is_casual = true and no citation,
\* without any index search or LLM invocation, and the index and the file
\* registry stay as they were; the casual check comes before the
\* upload-first guidance.
C7_CasualShortCircuits ==
    [][(last'.op = "get_answer" /\ IsCasual[last'.question])
          => /\ last'.outcome = "returned"
             /\ last'.answer = FriendlyResponse[last'.question]
             /\ last'.answer /= UploadFirstMessage
             /\ last'.metadata.confidence = 1000
             /\ "is_casual" \in DOMAIN last'.metadata /\ last'.metadata.is_casual = TRUE
             /\ last'.citations = <<>>
             /\ ~last'.searched /\ ~last'.llm_invoked
             /\ UNCHANGED <<vector_store, chroma_db, retriever, llm, uploaded_documents>>]_vars

C7_Witness ==
    /\ Asked /\ IsCasual[last.question] /\ last.question = "thanks for chapter 3"
    /\ vector_store = None /\ last.answer = ThanksResponse

\* C8 as stated: in any reachable state, a get_answer call on a casual
\* question makes the conversation memory grow by exactly 2 turns, the user
\* turn of the question followed by the assistant turn of the canned response.
C8_CasualGrowsByTwo ==
    [][(last'.op = "get_answer" /\ IsCasual[last'.question])
          => /\ Len(conversation_history') = Len(conversation_history) + 2
             /\ LastN(conversation_history', 2)
                   = << Turn("user", Txt(last'.question)),
                        Turn("assistant", FriendlyResponse[last'.question]) >>]_vars

\* C8 amended: a get_answer call on a casual question appends the user turn
\* of the question followed by the assistant turn of the canned response:
\* the log grows by exactly 2 turns while it held at most 18, and on a
\* fuller log the oldest turns are evicted so that it holds the last 20.
C8_CasualAppendsPair ==
    [][(last'.op = "get_answer" /\ IsCasual[last'.question])
          => /\ conversation_history'
                   = LastN(conversation_history
                             \o << Turn("user", Txt(last'.question)),
                                   Turn("assistant", FriendlyResponse[last'.question]) >>,
                           20)
             /\ Len(conversation_history) <= 18
                   => Len(conversation_history') = Len(conversation_history) + 2]_vars

C8_Witness ==
    /\ Asked /\ IsCasual[last.question]
    /\ Len(conversation_history) = 20
    /\ LastTurn = Turn("assistant", GreetingResponse)
    /\ conversation_history[1].content = Txt("page 5")

\* C9: a non-casual question asked while the index is UNINITIALIZED gets the
\* fixed upload-first guidance with confidence 0 and no citation, without any
\* retrieval or LLM invocation.
C9_UninitializedGetsGuidance ==
    (Asked /\ ~IsCasual[last.question] /\ vector_store = None) =>
        /\ last.outcome = "returned"
        /\ last.answer = UploadFirstMessage
        /\ last.metadata.confidence = 0
        /\ last.citations = <<>>
        /\ ~last.searched /\ ~last.llm_invoked

C9_Witness ==
    /\ Asked /\ ~IsCasual[last.question] /\ vector_store = None
    /\ llm /= None /\ last.answer = UploadFirstMessage

\* the citations are one per retrieved chunk, in retrieval order
CitationsFollowDocs ==
    /\ Len(last.citations) = Len(last.docs)
    /\ \A i \in 1..Len(last.docs) :
           /\ last.citations[i].filename = last.docs[i].filename
           /\ last.citations[i].page = last.docs[i].page
           /\ last.citations[i].relevance = Round2(last.scores[i])

\* C10 as stated: with a filter_filename supplied, retrieval returns at most
\* 5 chunks, all of the file the filter names, and so is every citation;
\* without a filter it returns at most 5 chunks and the citations are one per
\* retrieved chunk, in retrieval order.
C10_FilterSuppliedMeansFiltered ==
    (Asked /\ "docs" \in DOMAIN last) =>
        /\ Len(last.docs) <= 5
        /\ CitationsFollowDocs
        /\ last.filter_filename /= None =>
               /\ \A i \in 1..Len(last.docs) : last.docs[i].filename = last.filter_filename
               /\ \A i \in 1..Len(last.citations) :
                      last.citations[i].filename = last.filter_filename

\* C10 amended: with a non-empty filter_filename, retrieval returns at most 5
\* chunks, all of the file the filter names, and so is every citation; with
\* no filter, or with the empty string as filter, it returns at most 5 chunks
\* of any file; in all cases the citations are one per retrieved chunk, in
\* retrieval order.
C10_NonEmptyFilterMeansFiltered ==
    (Asked /\ "docs" \in DOMAIN last) =>
        /\ Len(last.docs) <= 5
        /\ CitationsFollowDocs
        /\ \A i \in 1..Len(last.docs) : \E j \in 1..Len(chroma_db) : chroma_db[j] = last.docs[i]
        /\ last.filter_filename \notin {None, ""} =>
               /\ \A i \in 1..Len(last.docs) : last.docs[i].filename = last.filter_filename
               /\ \A i \in 1..Len(last.citations) :
                      last.citations[i].filename = last.filter_filename

C10_Witness ==
    /\ Asked /\ "docs" \in DOMAIN last
    /\ last.filter_filename = "a.pdf"
    /\ Len(last.docs) >= 3
    /\ \E j \in 1..Len(chroma_db) :
           /\ chroma_db[j].filename = "b.pdf"
           /\ Relevance(last.question, chroma_db[j]) > last.scores[Len(last.scores)]

\* C11: clear_knowledge_base is total and idempotent.  In every reachable
\* state it can be called, whether or not delete_collection() and
\* shutil.rmtree() fail, and it returns; whenever it has returned the index
\* is UNINITIALIZED, the retriever is none, the file registry is empty and
\* the conversation log is empty.  A second call in a row therefore returns
\* too and leaves these four as the first call left them.
C11_ClearKnowledgeBaseTotalIdempotent ==
    /\ \A delete_fails \in BOOLEAN, rmtree_fails \in BOOLEAN :
           ENABLED ClearKnowledgeBase(delete_fails, rmtree_fails)
    /\ last.op = "clear_knowledge_base" =>
           /\ last.outcome = "returned"
           /\ vector_store = None
           /\ retriever = None
           /\ uploaded_documents = EmptyDict
           /\ conversation_history = <<>>

\* the reset has returned although neither deletion succeeded: chunks are
\* left in the persist directory
C11_Witness ==
    /\ last.op = "clear_knowledge_base"
    /\ chroma_db /= <<>>
    /\ vector_store = None

\* C12: the vector index is a two-state machine.  It is UNINITIALIZED
\* (vector_store is None) initially; it becomes READY exactly in a step that
\* is a successful ingest on an UNINITIALIZED index, stays READY across
\* further ingests and queries, and returns to UNINITIALIZED exactly in a
\* clear_knowledge_base step; an ingest that raises (zero segments) changes
\* neither the index state nor its content; and while the index is
\* UNINITIALIZED retrieve_with_scores returns the empty result for every
\* question and filter.
C12_IndexStateMachine ==
    /\ vector_store = None
    /\ [][/\ (vector_store = None /\ vector_store' /= None) <=>
                 (vector_store = None /\ last'.op = "ingest_pdf"
                                      /\ last'.outcome = "returned")
          /\ (vector_store /= None /\ vector_store' = None) <=>
                 (vector_store /= None /\ last'.op = "clear_knowledge_base")
          /\ (last'.op = "ingest_pdf" /\ last'.outcome = "raised") =>
                 (vector_store' = vector_store /\ chroma_db' = chroma_db)
         ]_vars
    /\ [](vector_store = None =>
              \A question \in Questions, filter_filename \in Filters :
                  retrieve_with_scores(question, filter_filename)
                      = [docs |-> <<>>, scores |-> <<>>])

\* an index that was READY, was reset with chunks left in the persist
\* directory, and then saw an ingest fail: it is still UNINITIALIZED
C12_Witness ==
    /\ vector_store = None
    /\ llm /= None
    /\ chroma_db /= <<>>
    /\ last.op = "ingest_pdf"
    /\ last.outcome = "raised"

\* C13: whatever queries, conversation resets and knowledge-base resets came
\* before, GET /conversation returns exactly the turn sequence the
\* conversation memory of rag holds at that moment, and its length.
C13_ConversationReadReturnsMemory ==
    last.op = "get_chat_history" =>
        /\ last.history = conversation_history
        /\ last.message_count = Len(conversation_history)

\* C14: when a filename already in the file registry is ingested again
\* successfully, with a batch of n chunks on an index holding s chunks, the
\* index afterwards holds s + n chunks, the s earlier ones still in place;
\* the registry entry of the filename is n, every other entry is unchanged
\* and no file is added to the registry.
C14_ReingestAppendsAndOverwrites ==
    [][(/\ last'.op = "ingest_pdf"
        /\ last'.outcome = "returned"
        /\ last'.file.filename \in DOMAIN uploaded_documents) =>
           LET f == last'.file.filename
               n == Len(split_documents(load_pdf_with_pymupdf(last'.file)))
           IN  /\ last'.chunks = n
               /\ IndexSize' = IndexSize + n
               /\ SubSeq(chroma_db', 1, Len(chroma_db)) = chroma_db
               /\ uploaded_documents'[f] = n
               /\ DOMAIN uploaded_documents' = DOMAIN uploaded_documents
               /\ \A g \in DOMAIN uploaded_documents \ {f} :
                      uploaded_documents'[g] = uploaded_documents[g]
      ]_vars

\* a.pdf, then b.pdf, then b.pdf again: seven chunks in the index, and the
\* registry holds 2 for b.pdf
C14_Witness ==
    /\ last.op = "ingest_pdf"
    /\ last.outcome = "returned"
    /\ last.file = DocB
    /\ Len(chroma_db) = 7
    /\ chroma_db[1].filename = "a.pdf"
    /\ chroma_db[4].filename = "b.pdf"
    /\ chroma_db[6].filename = "b.pdf"
    /\ DOMAIN uploaded_documents = {"a.pdf", "b.pdf"}
    /\ uploaded_documents["b.pdf"] = 2

\* C20: clear_knowledge_base leaves the LLM handle as it is.  A handle that
\* is set is never changed again, whatever the number of knowledge-base
\* resets; a handle that is none changes only in a successful ingest, the
\* one place where initialization is attempted.
C20_ClearKeepsLLM ==
    [][/\ last'.op = "clear_knowledge_base" => llm' = llm
       /\ llm /= None => llm' = llm
       /\ llm' /= llm => (last'.op = "ingest_pdf" /\ last'.outcome = "returned")
      ]_vars

\* two resets in a row after an ingest that initialized the LLM
C20_Witness ==
    /\ last.op = "clear_knowledge_base"
    /\ llm /= None
    /\ vector_store = None
    /\ chroma_db = <<>>

\* C17: eviction is first-in first-out and keeps the order.  The log is
\* empty initially and after clear_conversation and clear_knowledge_base;
\* every call that appends turns leaves the log equal, in order, to the last
\* min(n, 20) turns of the log before the call followed by the turns
\* appended, n being the length of the two together; so at every point the
\* log is the last min(n, 20) of all n turns appended since the last clear,
\* and an append on a full log drops exactly the oldest turn per turn
\* appended and no other.
C17_EvictionIsFIFO ==
    /\ conversation_history = <<>>
    /\ [][/\ last'.op = "get_answer" =>
                 LET all == conversation_history \o last'.recorded
                     n == Len(all)
                     kept == IF n < HistoryCap THEN n ELSE HistoryCap
                 IN  /\ conversation_history' = [i \in 1..kept |-> all[n - kept + i]]
                     /\ last'.evicted = n - kept
                     /\ Len(conversation_history) = HistoryCap =>
                            /\ last'.evicted = Len(last'.recorded)
                            /\ \A i \in 1..(HistoryCap - last'.evicted) :
                                   conversation_history'[i]
                                       = conversation_history[i + last'.evicted]
          /\ last'.op \in {"clear_conversation", "clear_knowledge_base"} =>
                 conversation_history' = <<>>
          /\ last'.op = "ingest_pdf" => conversation_history' = conversation_history
         ]_vars

\* a document question asked on a full log that began with a greeting
\* exchange: the exchange was pushed out, the log now begins with what was
\* its third turn
C17_Witness ==
    /\ Asked
    /\ last.evicted = 2
    /\ last.question = "page 5"
    /\ Len(conversation_history) = HistoryCap
    /\ conversation_history[HistoryCap - 1].content /= conversation_history[1].content
    /\ conversation_history[HistoryCap].content = last.answer

\* the lines of turns from..to of the log h, written out turn by turn
RECURSIVE ExpectedLines(_, _, _)
ExpectedLines(h, from, to) ==
    IF from > to THEN <<>>
    ELSE << <<(IF h[from].role = "user" THEN "User: " ELSE "Assistant: "), 0,
              (IF h[from].role = "user" THEN 6 ELSE 11)>> >>
           \o Take(h[from].content, 200)
           \o << <<"\n", 0, 1>> >>
           \o ExpectedLines(h, from + 1, to)

ExpectedContext(h) ==
    IF Len(h) = 0 THEN <<>>
    ELSE LET k == IF Len(h) < 6 THEN Len(h) ELSE 6
         IN  << <<"Previous conversation:\n", 0, 23>> >>
                 \o ExpectedLines(h, Len(h) - k + 1, Len(h))

\* C18: get_conversation_context returns the empty string on an empty log;
\* otherwise the header 'Previous conversation:' and then one line for each
\* of the last min(len, 6) turns, oldest first, labelled User or Assistant by
\* the turn's role and carrying the first 200 characters of its content at
\* most.  The context get_answer hands to the prompt is that of the log with
\* the question just appended, and apart from the two turns get_answer
\* appends the log is as it was.
C18_ContextIsLastSixTurns ==
    /\ [](/\ get_conversation_context(<<>>) = <<>>
          /\ get_conversation_context(conversation_history)
                 = ExpectedContext(conversation_history)
          /\ conversation_history /= <<>> =>
                 StrLen(get_conversation_context(conversation_history))
                     <= 23 + 6 * (11 + 200 + 1))
    /\ [][(last'.op = "get_answer" /\ "conversation_context" \in DOMAIN last') =>
              /\ last'.conversation_context =
                     IF last'.use_history
                     THEN ExpectedContext(LastN(Append(conversation_history,
                                                       last'.recorded[1]), HistoryCap))
                     ELSE <<>>
              /\ conversation_history' =
                     LastN(conversation_history \o last'.recorded, HistoryCap)
         ]_vars

\* a context rendered for the prompt from a log of more than six turns, one
\* of the six an LLM answer of more than 200 characters
C18_Witness ==
    /\ Asked
    /\ "conversation_context" \in DOMAIN last
    /\ last.use_history
    /\ last.llm_invoked
    /\ Len(conversation_history) > 8
    /\ StrLen(conversation_history[Len(conversation_history) - 2].content) > 200
    /\ StrLen(last.conversation_context) > 23 + 200

\* the three rules, on the lower-cased, trimmed text t
GreetingRule(t) ==
    \E i \in 1..Len(GREETING_PATTERNS) :
        LET p == GREETING_PATTERNS[i] IN
        \/ t = p
        \/ /\ Len(t) > Len(p)
           /\ \A j \in 1..Len(p) : t[j] = p[j]
           /\ t[Len(p) + 1] \in {" ", "!", ","}

CasualPhraseRule(t) ==
    \E i \in 1..Len(CASUAL_PATTERNS) :
        \E from \in 1..Len(t) :
            /\ from + Len(CASUAL_PATTERNS[i]) - 1 <= Len(t)
            /\ \A j \in 1..Len(CASUAL_PATTERNS[i]) : t[from + j - 1] = CASUAL_PATTERNS[i][j]

\* the tokens of t, counted by the position each one ends at
TokenEnds(t) ==
    {i \in 1..Len(t) : t[i] \notin Whitespace /\ (i = Len(t) \/ t[i + 1] \in Whitespace)}

ShortRule(t) ==
    /\ Cardinality(TokenEnds(t)) <= 2
    /\ \A i \in 1..Len(t) : t[i] \notin Digits

\* C19: is_greeting_or_casual(text) is true exactly when, on the lower-cased
\* and trimmed text, (1) the text is a greeting phrase or starts with one
\* followed by a space, '!' or ',', or (2) it contains a casual phrase, or
\* (3) it has at most 2 whitespace-separated tokens and no digit.  So every
\* message of at most 2 tokens without a digit is casual, and a message with
\* a digit that matches neither phrase set is not.
C19_ClassifierRules ==
    last.op = "is_greeting_or_casual" =>
        LET t == Strip(Lower(last.text)) IN
        /\ last.result <=> (GreetingRule(t) \/ CasualPhraseRule(t) \/ ShortRule(t))
        /\ (Cardinality(TokenEnds(t)) <= 2 /\ ~HasDigit(t)) => last.result
        /\ (HasDigit(t) /\ ~GreetingRule(t) /\ ~CasualPhraseRule(t)) => ~last.result

\* "page 5" with blanks around it: two tokens, one a digit, no phrase
C19_Witness ==
    /\ last.op = "is_greeting_or_casual"
    /\ last.text = <<" ", "p", "a", "g", "e", " ", "5", " ", "\n">>
    /\ ~last.result

\* request r has recorded its question and not yet its reply
AwaitingReply(r) == requests[r].pc \in {"casual_reply", "retrieve", "context", "invoke"}

\* C15 as stated: two chat requests served by the process can interleave
\* their steps.  Whenever one request has recorded its question and not yet
\* its reply and another chat request has arrived, the handler of the other
\* can take its first step, putting its user turn between the question and
\* the reply of the first.
C15_ChatRequestsCanInterleave ==
    \A r1 \in Requests, r2 \in Requests :
        (/\ r1 /= r2
         /\ AwaitingReply(r1)
         /\ requests[r2].pc = "arrived" /\ requests[r2].kind = "chat") =>
            ENABLED ChatStart(r2)

\* C15 amended: the chat handlers of the process run one at a time.  At most
\* one request is inside its handler; while a request has recorded its
\* question and not yet its reply, the last turn of the log is that
\* question; and when the reply is recorded the log ends with the question
\* and then the reply: a reply immediately follows its own question.
C15_ReplyFollowsOwnQuestion ==
    /\ [](/\ Cardinality({r \in Requests : MidHandler(r)}) <= 1
          /\ \A r \in Requests : AwaitingReply(r) =>
                 /\ conversation_history /= <<>>
                 /\ LastTurn = Turn("user", Txt(requests[r].question)))
    /\ [][\A r \in Requests :
              (/\ AwaitingReply(r)
               /\ requests'[r].pc = "done"
               /\ last'.outcome = "returned") =>
                  LET n == Len(conversation_history') IN
                  /\ n >= 2
                  /\ conversation_history'[n - 1] = Turn("user", Txt(requests[r].question))
                  /\ conversation_history'[n] = Turn("assistant", last'.answer)
         ]_vars

\* a document question waiting for the LLM while a chat request with another
\* question has arrived and is not being served
C15_Witness ==
    \E r1 \in Requests, r2 \in Requests :
        /\ r1 /= r2
        /\ requests[r1].pc = "invoke"
        /\ requests[r2].pc = "arrived" /\ requests[r2].kind = "chat"
        /\ requests[r2].question /= requests[r1].question
        /\ loop = r1

\* the chunks of file f in the persist directory
ChunksOf(f) == {i \in 1..Len(chroma_db) : chroma_db[i].filename = f}

\* C16 as stated: two ingestion requests served by the process while the
\* index is UNINITIALIZED can both observe vector_store is None.  Whenever
\* one request has seen None at line 216 and not yet stored its batch, and
\* another ingestion request has arrived, the handler of the other can take
\* its first step towards the same test.
C16_UploadsCanBothSeeNone ==
    \A r1 \in Requests, r2 \in Requests :
        (/\ r1 /= r2
         /\ requests[r1].pc = "store" /\ requests[r1].branch = "create"
         /\ vector_store = None
         /\ requests[r2].pc = "arrived" /\ requests[r2].kind = "upload") =>
            ENABLED UploadStart(r2)

\* C16 amended: the ingestion handlers of the process run one at a time.  At
\* most one request is inside its handler; the branch a request took at
\* line 216 still matches vector_store when it stores its batch, so two
\* requests never take the create branch on the same observation; a request
\* about to write its registry entry has its batch at the end of the index;
\* and the index holds, for every file the registry lists, at least as many
\* chunks of that file as the registry says.
C16_UploadsRunOneAtATime ==
    /\ Cardinality({r \in Requests : MidHandler(r)}) <= 1
    /\ \A r \in Requests :
           /\ requests[r].pc = "store" =>
                  (requests[r].branch = "create" <=> vector_store = None)
           /\ requests[r].pc = "finish" =>
                  /\ vector_store /= None
                  /\ Len(chroma_db) >= Len(requests[r].texts)
                  /\ SubSeq(chroma_db, Len(chroma_db) - Len(requests[r].texts) + 1,
                            Len(chroma_db)) = requests[r].texts
    /\ \A f \in DOMAIN uploaded_documents :
           /\ vector_store /= None
           /\ Cardinality(ChunksOf(f)) >= uploaded_documents[f]

\* an upload that has seen vector_store None and not yet stored its batch
\* while an upload of another file has arrived and is not being served
C16_Witness ==
    \E r1 \in Requests, r2 \in Requests :
        /\ r1 /= r2
        /\ requests[r1].pc = "store" /\ requests[r1].branch = "create"
        /\ vector_store = None
        /\ requests[r2].pc = "arrived" /\ requests[r2].kind = "upload"
        /\ requests[r2].file.filename /= requests[r1].file.filename
        /\ ~ZeroSegments(requests[r2].file)
        /\ loop = r1

\* the log ends with the records of newest, read backwards
NewestFirstOf(newest, log) ==
    \E k \in 0..LogLen(log) : DropFirst(log, k) = Reversed(newest)

\* C21: get_interaction_history(session_id, limit) returns at most limit
\* records for every limit >= 0, the newest first, and when a session_id is
\* given every record returned has that session id.
C21_HistoryAtMostLimit ==
    (last.op = "get_interaction_history" /\ last.limit >= 0) =>
        /\ LogLen(last.interactions) <= last.limit
        /\ last.session_id = None => NewestFirstOf(last.interactions, interactions_log)
        /\ last.session_id /= None =>
               /\ NewestFirstOf(last.interactions,
                                OfSession(interactions_log, last.session_id))
               /\ \A i \in 1..Len(last.interactions) :
                      last.interactions[i][1].session_id = last.session_id

\* the newest record of a log
Newest(log) == log[Len(log)][1]

\* log after is log before with one record added at the end, cut at the
\* front to the last cap records
MostRecent(before, after, cap) ==
    /\ after /= <<>>
    /\ LET all == AppendRun(before, Newest(after), 1)
       IN  after = DropFirst(all, IF LogLen(all) > cap THEN LogLen(all) - cap ELSE 0)

\* C22: after any sequence of log_interaction, log_error and clear_metrics
\* calls the interactions log holds at most 1000 records and the error log
\* at most 100; each call adds its record at the end and, on a full log,
\* drops the oldest record and no other, so each log holds its most recent
\* records in arrival order; clear_metrics empties both.
C22_LogsCappedMostRecent ==
    /\ [](/\ LogLen(interactions_log) <= 1000
          /\ LogLen(error_log) <= 100)
    /\ [][/\ last'.op = "log_interaction" =>
                 /\ MostRecent(interactions_log, interactions_log', 1000)
                 /\ Newest(interactions_log').session_id = last'.session_id
                 /\ error_log' = error_log
          /\ last'.op = "log_error" =>
                 /\ MostRecent(error_log, error_log', 100)
                 /\ Newest(error_log').type = last'.error_type
                 /\ interactions_log' = interactions_log
          /\ last'.op = "clear_metrics" =>
                 (interactions_log' = <<>> /\ error_log' = <<>>)
         ]_vars

\* an interaction logged on a full interactions log, next to a full error
\* log: the oldest interaction was dropped
C22_Witness ==
    /\ last.op = "log_interaction"
    /\ last.evicted = 1
    /\ LogLen(interactions_log) = 1000
    /\ LogLen(error_log) = 100

\* C23: with one request processed at a time and no retrieval call raising,
\* after any sequence of casual queries, document queries and resets the
\* roles in the conversation log alternate: no two neighbouring turns have
\* the same role, also once turns have been pushed out at the 20-turn cap.
C23_RolesAlternate ==
    \A i \in 1..(Len(conversation_history) - 1) :
        conversation_history[i].role /= conversation_history[i + 1].role

\* a greeting answered on a full log that holds a document question and its
\* fallback answer: two turns were pushed out, the log begins with a
\* question and ends with the greeting's reply
C23_Witness ==
    /\ Asked
    /\ last.question = "hi"
    /\ last.evicted = 2
    /\ Len(conversation_history) = HistoryCap
    /\ conversation_history[1].role = "user"
    /\ LastTurn.role = "assistant"
    /\ \E i \in 1..(HistoryCap - 1) :
           /\ conversation_history[i] = Turn("user", Txt("page 5"))
           /\ conversation_history[i + 1].role = "assistant"

\* the line get_conversation_context renders for the question as a user turn
QuestionLine(question) ==
    << <<"User: ", 0, 6>> >> \o Take(Txt(question), 200) \o << <<"\n", 0, 1>> >>

\* C24: whenever get_answer invokes the LLM with use_history = true, the
\* user turn of the current question is in the log before the history is
\* rendered: the conversation context is not empty, its last line is the
\* current question, and before it come the lines of the last min(len, 5)
\* turns the log held when the request began, so at most 5 of the 6 rendered
\* turns are from earlier requests.  With use_history = false the context
\* placed in the prompt is empty, and the user and the assistant turn are
\* recorded all the same.
C24_ContextEndsWithQuestion ==
    [][(last'.op = "get_answer" /\ last'.llm_invoked) =>
           LET h == conversation_history
               k == IF Len(h) < 5 THEN Len(h) ELSE 5
           IN  /\ last'.use_history =>
                      /\ last'.conversation_context /= <<>>
                      /\ last'.conversation_context =
                             << <<"Previous conversation:\n", 0, 23>> >>
                                 \o ExpectedLines(h, Len(h) - k + 1, Len(h))
                                 \o QuestionLine(last'.question)
               /\ ~last'.use_history => last'.conversation_context = <<>>
               /\ Len(last'.recorded) = 2
               /\ last'.recorded[1] = Turn("user", Txt(last'.question))
               /\ last'.recorded[2].role = "assistant"
               /\ conversation_history' = LastN(h \o last'.recorded, HistoryCap)
      ]_vars

\* the LLM invoked with use_history = true on a full log: the question and
\* the answer pushed two turns out, and the context holds six turns, the
\* question the last of them
C24_Witness ==
    /\ Asked
    /\ last.llm_invoked
    /\ last.use_history
    /\ last.evicted = 2
    /\ Len(conversation_history) = HistoryCap
    /\ conversation_history[HistoryCap - 1] = Turn("user", Txt(last.question))
    /\ StrLen(last.conversation_context) > 23 + StrLen(QuestionLine(last.question))

====
